---- MODULE Spec2Model ----
(***************************************************************************)
(* Model of browsertrix-crawler's util/storage.js (S3StorageSync: upload,  *)
(* digest, webhook dispatch) and util/argParser.js (ArgParser.validateArgs)*)
(*                                                                         *)
(* A JavaScript string is modelled as the sequence of its symbols; a       *)
(* symbol is written as a short TLA+ string ("redis:", "/", "h:6379").     *)
(* length, slice, split, join, startsWith and replace are computed on      *)
(* these sequences exactly as the JavaScript methods compute them on       *)
(* characters.  A dynamically typed JavaScript value is a record           *)
(* [t |-> type tag, v |-> payload].                                        *)
(***************************************************************************)
EXTENDS Integers, Sequences, FiniteSets, TLC

VARIABLES
    this,       \* the S3StorageSync instance built by the constructor
    pc,         \* the await the running call is suspended at ("idle" when none)
    call,       \* the running (or last) call: function, arguments, number
    resource,   \* value returned by uploadFile in this call
    result,     \* how the call settled: "none" | "pending" | "ok" | "error"
    error,      \* which step threw ("" when none)
    log,        \* external operations of this call, in order: [op, ph]
    sent,       \* notifications put on the wire in this call, in order
    bucket,     \* objects present in the object store: set of [name, data]
    redis,      \* redis lists written so far: <<connection url, key>> -> list
    parsed,     \* the option bag as yargs hands it to validateArgs
    env,        \* what validateArgs reads from the process: host name, clock, seed file
    argv,       \* the option bag validateArgs works on
    vres        \* how validateArgs ended: "none" | "ok" | an error name

syncVars == <<this, pc, call, resource, result, error, log, sent, bucket, redis>>
argVars  == <<parsed, env, argv, vres>>
vars     == <<this, pc, call, resource, result, error, log, sent, bucket, redis, parsed, env, argv, vres>>

----------------------------------------------------------------------------
(* Bounds *)
MaxCalls == 2     \* calls made on one S3StorageSync instance

----------------------------------------------------------------------------
(* JavaScript values and string methods *)

Undef     == [t |-> "undefined", v |-> <<>>]
Str(s)    == [t |-> "string", v |-> s]
Arr(a)    == [t |-> "array", v |-> a]

\* JavaScript truthiness of undefined, strings and arrays.
Truthy(x) ==
    CASE x.t = "undefined" -> FALSE
      [] x.t = "string"    -> x.v # <<>>
      [] OTHER             -> TRUE

\* String.prototype.startsWith
StartsWith(s, p) == Len(s) >= Len(p) /\ SubSeq(s, 1, Len(p)) = p

\* String.prototype.slice(n) for 0 <= n
SliceFrom(s, n) == SubSeq(s, n + 1, Len(s))

\* String.prototype.split(d) for a one-symbol separator d: the sequence of the
\* pieces between separators (a piece may be empty).
RECURSIVE Split(_, _)
Split(s, d) ==
    IF \A i \in 1..Len(s) : s[i] # d
    THEN <<s>>
    ELSE LET k == CHOOSE i \in 1..Len(s) : s[i] = d /\ \A j \in 1..(i-1) : s[j] # d
         IN  <<SubSeq(s, 1, k - 1)>> \o Split(SubSeq(s, k + 1, Len(s)), d)

\* Array.prototype.join(d)
RECURSIVE Join(_, _)
Join(parts, d) ==
    IF parts = <<>> THEN <<>>
    ELSE IF Len(parts) = 1 THEN parts[1]
    ELSE parts[1] \o <<d>> \o Join(Tail(parts), d)

\* Array.prototype.includes
Includes(a, x) == \E i \in 1..Len(a) : a[i] = x

----------------------------------------------------------------------------
(* storage.js: the environment *)

\* Local files the crawler hands to the uploader, with their bytes.
Disk(name) ==
    CASE name = <<"a.wacz">> -> <<"b1", "b2">>
      [] name = <<"b.wacz">> -> <<"b3">>
      [] OTHER               -> <<>>

SrcFiles    == {<<"a.wacz">>, <<"b.wacz">>}
TargetNames == {<<"out.wacz">>, <<"d", "/", "o.wacz">>}

\* createHash(hashName) ... digest("hex") over the bytes streamed from path.
checksumFile(hashName, path) == <<hashName, "("  >> \o Disk(path) \o <<")">>

\* fsp.stat(filename).size
getFileSize(filename) == Len(Disk(filename))

\* new URL(...).href for a parsed URL record.
Href(url) ==
    <<url.protocol, "/", "/">>
      \o (IF url.username # <<>> \/ url.password # <<>>
          THEN url.username
                 \o (IF url.password # <<>> THEN <<":">> \o url.password ELSE <<>>)
                 \o <<"@">>
          ELSE <<>>)
      \o url.host \o url.pathname

\* The store locations the model constructs instances from.
StoreUrls ==
    { [protocol |-> "https:", username |-> u, password |-> p,
       host |-> <<"s3.host">>, pathname |-> path] :
        u \in {<<>>, <<"AK">>}, p \in {<<>>, <<"SK">>},
        path \in { <<"/", "bkt", "/", "pre", "/">>, <<"/", "bkt", "/">> } }

\* constructor(urlOrData, {webhookUrl, userId, crawlId})
\* kind "string": urlOrData is a url string whose credentials are moved out;
\* kind "data":   urlOrData is {endpointUrl, accessKey, secretKey}.
NewS3StorageSync(kind, url, webhookUrl, userId, crawlId) ==
    LET clean      == IF kind = "string"
                      THEN [url EXCEPT !.username = <<>>, !.password = <<>>]
                      ELSE url
        bucketName == Split(SliceFrom(clean.pathname, 1), "/")[1]
    IN  [ fullPrefix   |-> Href(clean),
          bucketName   |-> bucketName,
          objectPrefix |-> SliceFrom(clean.pathname, Len(bucketName) + 2),
          userId       |-> userId,
          crawlId      |-> crawlId,
          webhookUrl   |-> webhookUrl ]

\* WEBHOOK_URL values.
WebhookUrls ==
    { Undef,
      Str(<<>>),
      Str(<<"http:", "/", "/", "hook.host", "/", "done">>),
      Str(<<"https:", "/", "/", "hook.host">>),
      Str(<<"redis:", "/", "/", "h:6379", "/", "0", "/", "mykey">>),
      Str(<<"redis:", "/", "/", "h:6379", "/", "0">>),
      Str(<<"redis:", "/", "/", "h:6379", "/", "0", "/">>),
      Str(<<"redis:", "/", "/", "h:6379", "/", "0", "/", "k", "/", "x">>),
      Str(<<"redis:", "/", "/", "h:6379">>),
      Str(<<"amqp:", "/", "/", "mq.host", "/", "q">>),
      Str(<<"hook.host", "/", "done">>) }

UserIds  == {Undef, Str(<<"user1">>)}
CrawlIds == {Str(<<"crawl1">>)}

----------------------------------------------------------------------------
(* JSON.stringify *)

Quote(s) == <<"\"">> \o s \o <<"\"">>

\* JSON text of a string, number or boolean; "" for undefined (the member is
\* left out of an object).
JSONValue(x) ==
    CASE x.t = "string"  -> Quote(x.v)
      [] x.t = "number"  -> <<ToString(x.v)>>
      [] x.t = "boolean" -> <<IF x.v THEN "true" ELSE "false">>
      [] OTHER           -> <<>>

\* JSON.stringify of an object given as its members <<key, value>> in insertion
\* order; members whose value is undefined are skipped.
RECURSIVE JSONMembers(_, _)
JSONMembers(members, first) ==
    IF members = <<>> THEN <<>>
    ELSE LET m == Head(members)
         IN  IF m[2].t = "undefined"
             THEN JSONMembers(Tail(members), first)
             ELSE (IF first THEN <<>> ELSE <<",">>)
                    \o Quote(m[1]) \o <<":">> \o JSONValue(m[2])
                    \o JSONMembers(Tail(members), FALSE)

JSONStringify(members) == <<"{">> \o JSONMembers(members, TRUE) \o <<"}">>

----------------------------------------------------------------------------
(* storage.js: S3StorageSync *)

Ev(op, ph) == [op |-> op, ph |-> ph]

NoResource == [path |-> <<>>, hash |-> <<>>, bytes |-> -1]
NoCall     == [n |-> 0, fn |-> "", srcFilename |-> <<>>, targetFilename |-> <<>>,
               completed |-> TRUE, finalHash |-> <<>>, redisUrl |-> <<>>,
               key |-> <<>>, body |-> <<>>]

\* uploadCollWACZ: the notification object, as its members in insertion order.
WebhookBody(self, targetFilename, res, completed) ==
    << << <<"id">>,        self.crawlId>>,
       << <<"user">>,      self.userId>>,
       << <<"filename">>,  Str(self.fullPrefix \o targetFilename)>>,
       << <<"hash">>,      Str(res.hash)>>,
       << <<"size">>,      [t |-> "number", v |-> res.bytes]>>,
       << <<"completed">>, [t |-> "boolean", v |-> completed]>> >>

\* uploadCollWACZ: the pieces of a redis webhook url.
RedisParts(webhookUrl) == Split(webhookUrl, "/")

\* uploadCollWACZ: the url handed to initRedis.
RedisConnUrl(parts) == Join(SubSeq(parts, 1, 4), "/")

\* uploadCollWACZ: the list the notification is pushed onto.
RedisKey(parts) == parts[5]

\* Rpush turned into a head insert (lpush).
Lpush(list, value) == <<value>> \o list

\* redis.rpush(key, value): append at the tail of the list.
Rpush(list, value) == Append(list, value)

\* The list stored under <<connection url, key>> ("" when never written).
RedisList(db, conn, key) == IF <<conn, key>> \in DOMAIN db THEN db[<<conn, key>>] ELSE <<>>

\* The call settles: the promise resolves (ok) or rejects with the step's error.
Settle(how, step) ==
    /\ pc' = "idle"
    /\ result' = how
    /\ error' = step

\* IssueUpload with the await on fPutObject dropped: the digest's read stream is
\* opened while the upload is still in flight.
IssueUploadNoAwait(fn, src, target, completed) ==
    /\ pc = "idle"
    /\ call.n < MaxCalls
    /\ call' = [NoCall EXCEPT !.n = call.n + 1, !.fn = fn, !.srcFilename = src,
                              !.targetFilename = target, !.completed = completed]
    /\ pc' = "checksumFile"
    /\ log' = <<Ev("fPutObject", "call"), Ev("createReadStream", "call")>>
    /\ sent' = <<>>
    /\ resource' = NoResource
    /\ result' = "pending"
    /\ error' = ""
    /\ UNCHANGED <<this, bucket, redis>>

\* uploadFile / uploadCollWACZ is called: the first statement that leaves the
\* process is fPutObject, awaited.
IssueUpload(fn, src, target, completed) ==
    /\ pc = "idle"
    /\ call.n < MaxCalls
    /\ call' = [NoCall EXCEPT !.n = call.n + 1, !.fn = fn, !.srcFilename = src,
                              !.targetFilename = target, !.completed = completed]
    /\ pc' = "fPutObject"
    /\ log' = <<Ev("fPutObject", "call")>>
    /\ sent' = <<>>
    /\ resource' = NoResource
    /\ result' = "pending"
    /\ error' = ""
    /\ UNCHANGED <<this, bucket, redis>>

CalluploadFile ==
    \E src \in SrcFiles, target \in TargetNames :
        IssueUpload("uploadFile", src, target, TRUE)

\* uploadCollWACZ(srcFilename, targetFilename, completed = true): an omitted
\* third argument takes the default.
CalluploadCollWACZ ==
    \E src \in SrcFiles, target \in TargetNames, completed \in {"omitted", "true", "false"} :
        IssueUpload("uploadCollWACZ", src, target, completed # "false")

\* await fPutObject resolves: the object is stored, checksumFile opens its
\* read stream.
fPutObjectResolve ==
    /\ pc = "fPutObject"
    /\ bucket' = {o \in bucket : o.name # this.objectPrefix \o call.targetFilename}
                   \cup {[name |-> this.objectPrefix \o call.targetFilename,
                          data |-> Disk(call.srcFilename)]}
    /\ log' = log \o <<Ev("fPutObject", "ok"), Ev("createReadStream", "call")>>
    /\ pc' = "checksumFile"
    /\ UNCHANGED <<this, call, resource, result, error, sent, redis>>

\* fPutObjectReject with a local retry: the upload is issued again.
fPutObjectRejectRetry ==
    /\ pc = "fPutObject"
    /\ log' = log \o <<Ev("fPutObject", "err"), Ev("fPutObject", "call")>>
    /\ UNCHANGED <<this, pc, call, resource, result, error, sent, bucket, redis>>

\* await fPutObject rejects: uploadFile throws, and so does uploadCollWACZ.
fPutObjectReject ==
    /\ pc = "fPutObject"
    /\ log' = Append(log, Ev("fPutObject", "err"))
    /\ Settle("error", "fPutObject")
    /\ UNCHANGED <<this, call, resource, sent, bucket, redis>>

\* stream "end": the digest resolves, getFileSize stats the file.
checksumFileResolve ==
    /\ pc = "checksumFile"
    /\ call' = [call EXCEPT !.finalHash = checksumFile("sha256", call.srcFilename)]
    /\ log' = log \o <<Ev("createReadStream", "ok"), Ev("stat", "call")>>
    /\ pc' = "getFileSize"
    /\ UNCHANGED <<this, resource, result, error, sent, bucket, redis>>

\* stream "error": the digest rejects.
checksumFileReject ==
    /\ pc = "checksumFile"
    /\ log' = Append(log, Ev("createReadStream", "err"))
    /\ Settle("error", "checksumFile")
    /\ UNCHANGED <<this, call, resource, sent, bucket, redis>>

\* uploadCollWACZ after uploadFile returned res: the statements up to the next
\* await, or to the end of the function.
Dispatch(res) ==
    LET url   == this.webhookUrl
        body  == JSONStringify(WebhookBody(this, call.targetFilename, res, call.completed))
        parts == RedisParts(url.v)
    IN  IF ~Truthy(url)
        THEN /\ Settle("ok", "")
             /\ log' = log \o <<Ev("stat", "ok")>>
             /\ UNCHANGED <<call, sent>>
        ELSE IF StartsWith(url.v, <<"http:", "/", "/">>) \/ StartsWith(url.v, <<"https:", "/", "/">>)
        THEN /\ pc' = "fetch"
             /\ log' = log \o <<Ev("stat", "ok"), Ev("fetch", "call")>>
             /\ sent' = Append(sent, [via |-> "POST", conn |-> <<>>, to |-> url.v, body |-> body])
             /\ call' = [call EXCEPT !.body = body]
             /\ UNCHANGED <<result, error>>
        ELSE IF StartsWith(url.v, <<"redis:", "/", "/">>)
        THEN IF Len(parts) # 5
             THEN /\ Settle("error", "format")
                  /\ log' = log \o <<Ev("stat", "ok")>>
                  /\ UNCHANGED <<call, sent>>
             ELSE /\ pc' = "initRedis"
                  /\ log' = log \o <<Ev("stat", "ok"), Ev("initRedis", "call")>>
                  /\ call' = [call EXCEPT !.body = body,
                                          !.redisUrl = RedisConnUrl(parts),
                                          !.key = RedisKey(parts)]
                  /\ UNCHANGED <<result, error, sent>>
        ELSE /\ Settle("ok", "")
             /\ log' = log \o <<Ev("stat", "ok")>>
             /\ UNCHANGED <<call, sent>>

\* await getFileSize resolves: uploadFile returns the Resource; uploadCollWACZ
\* goes on to the webhook.
getFileSizeResolve ==
    /\ pc = "getFileSize"
    /\ LET res == [path |-> call.targetFilename, hash |-> call.finalHash,
                   bytes |-> getFileSize(call.srcFilename)]
       IN  /\ resource' = res
           /\ IF call.fn = "uploadFile"
              THEN /\ Settle("ok", "")
                   /\ log' = log \o <<Ev("stat", "ok")>>
                   /\ UNCHANGED <<call, sent>>
              ELSE Dispatch(res)
    /\ UNCHANGED <<this, bucket, redis>>

getFileSizeReject ==
    /\ pc = "getFileSize"
    /\ log' = Append(log, Ev("stat", "err"))
    /\ Settle("error", "getFileSize")
    /\ UNCHANGED <<this, call, resource, sent, bucket, redis>>

\* await fetch(...) settles.
fetchResolve ==
    /\ pc = "fetch"
    /\ log' = Append(log, Ev("fetch", "ok"))
    /\ Settle("ok", "")
    /\ UNCHANGED <<this, call, resource, sent, bucket, redis>>

fetchReject ==
    /\ pc = "fetch"
    /\ log' = Append(log, Ev("fetch", "err"))
    /\ Settle("error", "fetch")
    /\ UNCHANGED <<this, call, resource, sent, bucket, redis>>

\* await initRedis(...) resolves: rpush is issued on the connection.
initRedisResolve ==
    /\ pc = "initRedis"
    /\ log' = log \o <<Ev("initRedis", "ok"), Ev("rpush", "call")>>
    /\ sent' = Append(sent, [via |-> "rpush", conn |-> call.redisUrl,
                             to |-> call.key, body |-> call.body])
    /\ pc' = "rpush"
    /\ UNCHANGED <<this, call, resource, result, error, bucket, redis>>

initRedisReject ==
    /\ pc = "initRedis"
    /\ log' = Append(log, Ev("initRedis", "err"))
    /\ Settle("error", "initRedis")
    /\ UNCHANGED <<this, call, resource, sent, bucket, redis>>

\* await redis.rpush(...) resolves: the server has appended the value.
rpushResolve ==
    /\ pc = "rpush"
    /\ LET k == <<call.redisUrl, call.key>>
       IN  redis' = [x \in DOMAIN redis \cup {k} |->
                        IF x = k THEN Rpush(RedisList(redis, k[1], k[2]), call.body)
                        ELSE redis[x]]
    /\ log' = Append(log, Ev("rpush", "ok"))
    /\ Settle("ok", "")
    /\ UNCHANGED <<this, call, resource, sent, bucket>>

rpushReject ==
    /\ pc = "rpush"
    /\ log' = Append(log, Ev("rpush", "err"))
    /\ Settle("error", "rpush")
    /\ UNCHANGED <<this, call, resource, sent, bucket, redis>>

----------------------------------------------------------------------------
(* The uploader: one instance, MaxCalls calls on it *)

NoArgv == [collection |-> <<>>]
NoEnv  == [hostname |-> <<>>]

Init ==
    /\ \E kind \in {"string", "data"}, url \in StoreUrls, webhookUrl \in WebhookUrls,
          userId \in UserIds, crawlId \in CrawlIds :
          this = NewS3StorageSync(kind, url, webhookUrl, userId, crawlId)
    /\ pc = "idle"
    /\ call = NoCall
    /\ resource = NoResource
    /\ result = "none"
    /\ error = ""
    /\ log = <<>>
    /\ sent = <<>>
    /\ bucket = {}
    /\ redis = [x \in {} |-> <<>>]
    /\ parsed = NoArgv
    /\ env = NoEnv
    /\ argv = NoArgv
    /\ vres = "none"

Next ==
    \/ (CalluploadFile /\ UNCHANGED argVars)
    \/ (CalluploadCollWACZ /\ UNCHANGED argVars)
    \/ (fPutObjectResolve /\ UNCHANGED argVars)
    \/ (fPutObjectReject /\ UNCHANGED argVars)
    \/ (checksumFileResolve /\ UNCHANGED argVars)
    \/ (checksumFileReject /\ UNCHANGED argVars)
    \/ (getFileSizeResolve /\ UNCHANGED argVars)
    \/ (getFileSizeReject /\ UNCHANGED argVars)
    \/ (fetchResolve /\ UNCHANGED argVars)
    \/ (fetchReject /\ UNCHANGED argVars)
    \/ (initRedisResolve /\ UNCHANGED argVars)
    \/ (initRedisReject /\ UNCHANGED argVars)
    \/ (rpushResolve /\ UNCHANGED argVars)
    \/ (rpushReject /\ UNCHANGED argVars)

Spec == Init /\ [][Next]_vars

----------------------------------------------------------------------------
(* Properties of the uploader *)

Count(op, ph)  == Cardinality({i \in 1..Len(log) : log[i] = Ev(op, ph)})
Before(a, b)   == \A i \in 1..Len(log) : log[i] = b => \E j \in 1..(i-1) : log[j] = a
Settled        == pc = "idle" /\ result \in {"ok", "error"}
IsHttp(u)      == \/ (Len(u) >= 3 /\ u[1] = "http:"  /\ u[2] = "/" /\ u[3] = "/")
                  \/ (Len(u) >= 3 /\ u[1] = "https:" /\ u[2] = "/" /\ u[3] = "/")
IsRedis(u)     == Len(u) >= 3 /\ u[1] = "redis:" /\ u[2] = "/" /\ u[3] = "/"
Slashes(u)     == Cardinality({i \in 1..Len(u) : u[i] = "/"})
LastSlash(u)   == CHOOSE i \in 1..Len(u) : u[i] = "/" /\ \A j \in (i+1)..Len(u) : u[j] # "/"

\* C1: in every call the order is upload, digest, stat: the digest's read
\* stream is opened only after fPutObject has resolved, the stat is issued only
\* after the digest has resolved, and a Resource {path, hash, bytes} exists only
\* once all three have resolved, holding the target name, the digest of the
\* local file and its size.
C1_UploadThenDigestThenStat ==
    /\ Before(Ev("fPutObject", "call"), Ev("fPutObject", "ok"))
    /\ Before(Ev("fPutObject", "ok"), Ev("createReadStream", "call"))
    /\ Before(Ev("createReadStream", "ok"), Ev("stat", "call"))
    /\ pc \in {"checksumFile", "getFileSize"} => Count("fPutObject", "ok") = 1
    /\ resource # NoResource =>
          /\ \E i, j, k \in 1..Len(log) :
                /\ i < j /\ j < k
                /\ log[i] = Ev("fPutObject", "ok")
                /\ log[j] = Ev("createReadStream", "ok")
                /\ log[k] = Ev("stat", "ok")
          /\ resource.path = call.targetFilename
          /\ resource.hash = <<"sha256", "(">> \o Disk(call.srcFilename) \o <<")">>
          /\ resource.bytes = Len(Disk(call.srcFilename))
    /\ (call.fn = "uploadFile" /\ result = "ok") => resource # NoResource

C1_Witness ==
    /\ call.fn = "uploadFile"
    /\ result = "ok"
    /\ resource.bytes = 2
    /\ log = <<Ev("fPutObject", "call"), Ev("fPutObject", "ok"),
               Ev("createReadStream", "call"), Ev("createReadStream", "ok"),
               Ev("stat", "call"), Ev("stat", "ok")>>

\* C2: per call at most one notification is dispatched, and only by
\* uploadCollWACZ with a webhook target configured after upload, digest and stat
\* of that call resolved; a failed upload or digest settles the call with that
\* error, is the last thing the call did (no retry: fPutObject is issued exactly
\* once per call), and no notification is dispatched.
C2_NotifyAtMostOnceNoRetry ==
    /\ Len(sent) <= 1
    /\ sent # <<>> =>
          /\ call.fn = "uploadCollWACZ"
          /\ this.webhookUrl.t = "string" /\ this.webhookUrl.v # <<>>
          /\ Count("fPutObject", "ok") = 1
          /\ Count("createReadStream", "ok") = 1
          /\ Count("stat", "ok") = 1
    /\ call.n > 0 => Count("fPutObject", "call") = 1
    /\ Count("createReadStream", "call") <= 1
    /\ \A op \in {"fPutObject", "createReadStream"} :
          Count(op, "err") > 0 =>
             /\ log[Len(log)] = Ev(op, "err")
             /\ Settled /\ result = "error"
             /\ error = (IF op = "fPutObject" THEN "fPutObject" ELSE "checksumFile")
             /\ sent = <<>>

C2_Witness ==
    /\ call.n = 2
    /\ call.fn = "uploadCollWACZ"
    /\ Settled /\ result = "error" /\ error = "checksumFile"
    /\ this.webhookUrl.v # <<>>
    /\ IsHttp(this.webhookUrl.v)

\* C3: with a redis:// webhook url that does not split into exactly five
\* segments, the format error is raised before any work: no object-store
\* upload, no redis connection and no push has happened when it is raised.
C3_FormatErrorBeforeAnyWork ==
    error = "format" =>
        /\ Count("fPutObject", "call") = 0
        /\ Count("initRedis", "call") = 0
        /\ Count("rpush", "call") = 0
        /\ bucket = {}

\* C4: a configured webhook target whose scheme is neither http://, https://
\* nor redis:// is rejected: the uploadCollWACZ call ends in an error.
C4_OtherSchemeRejected ==
    ( /\ call.fn = "uploadCollWACZ"
      /\ Settled
      /\ this.webhookUrl.t = "string" /\ this.webhookUrl.v # <<>>
      /\ ~IsHttp(this.webhookUrl.v)
      /\ ~IsRedis(this.webhookUrl.v) )
    => result = "error"

\* The JSON text of {id, user, filename, hash, size, completed} for this call.
C5_ExpectedBody ==
    <<"{", "\"", "id", "\"", ":", "\"">> \o this.crawlId.v \o <<"\"">>
      \o (IF this.userId.t = "undefined" THEN <<>>
          ELSE <<",", "\"", "user", "\"", ":", "\"">> \o this.userId.v \o <<"\"">>)
      \o <<",", "\"", "filename", "\"", ":", "\"">>
      \o this.fullPrefix \o call.targetFilename \o <<"\"">>
      \o <<",", "\"", "hash", "\"", ":", "\"">> \o resource.hash \o <<"\"">>
      \o <<",", "\"", "size", "\"", ":", ToString(resource.bytes)>>
      \o <<",", "\"", "completed", "\"", ":", IF call.completed THEN "true" ELSE "false", "}">>

\* C5: a successful uploadCollWACZ call with a well-formed webhook target sent
\* exactly one message whose body is the JSON text of {id: crawlId, user:
\* userId, filename: fullPrefix + targetFilename, hash, size, completed}; an
\* http(s) target got one POST to the webhook url; a redis://host:port/db/key
\* target got one rpush onto the list named by the fifth segment, over the
\* connection redis://host:port/db, and the message is the tail of that list.
C5_OneMessageWithPayload ==
    LET u == this.webhookUrl.v
    IN  ( /\ call.fn = "uploadCollWACZ"
          /\ Settled /\ result = "ok"
          /\ this.webhookUrl.t = "string"
          /\ (IsHttp(u) \/ (IsRedis(u) /\ Slashes(u) = 4)) )
        => /\ Len(sent) = 1
           /\ sent[1].body = C5_ExpectedBody
           /\ \E cred \in {<<>>, <<"AK", ":", "SK", "@">>, <<"AK", "@">>, <<":", "SK", "@">>},
                 path \in {<<"/", "bkt", "/", "pre", "/">>, <<"/", "bkt", "/">>} :
                 this.fullPrefix = <<"https:", "/", "/">> \o cred \o <<"s3.host">> \o path
           /\ IsHttp(u) =>
                 /\ sent[1].via = "POST"
                 /\ sent[1].to = u
                 /\ Count("fetch", "call") = 1
                 /\ Count("rpush", "call") = 0
           /\ IsRedis(u) =>
                 LET conn == SubSeq(u, 1, LastSlash(u) - 1)
                     key  == SubSeq(u, LastSlash(u) + 1, Len(u))
                     list == RedisList(redis, conn, key)
                 IN  /\ sent[1].via = "rpush"
                     /\ sent[1].conn = conn
                     /\ sent[1].to = key
                     /\ Count("initRedis", "call") = 1
                     /\ Count("rpush", "call") = 1
                     /\ Count("fetch", "call") = 0
                     /\ list # <<>>
                     /\ list[Len(list)] = C5_ExpectedBody
                     /\ DOMAIN redis = {<<conn, key>>}

C5_Witness ==
    /\ call.n = 2
    /\ call.fn = "uploadCollWACZ"
    /\ Settled /\ result = "ok"
    /\ this.webhookUrl = Str(<<"redis:", "/", "/", "h:6379", "/", "0", "/", "mykey">>)
    /\ Len(RedisList(redis, <<"redis:", "/", "/", "h:6379", "/", "0">>, <<"mykey">>)) = 2
    /\ ~call.completed

----------------------------------------------------------------------------
(* More JavaScript: numbers, objects, string replace *)

Num(n)  == [t |-> "number", v |-> n]
Bool(b) == [t |-> "boolean", v |-> b]
Obj(o)  == [t |-> "object", v |-> o]

\* First position of pat in s, 0 when there is none (String.prototype.indexOf + 1).
IndexOf(s, pat) ==
    LET hits == {i \in 1..(Len(s) - Len(pat) + 1) : SubSeq(s, i, i + Len(pat) - 1) = pat}
    IN  IF hits = {} THEN 0 ELSE CHOOSE i \in hits : \A j \in hits : i <= j

\* String.prototype.replace(pat, rep) with a string pattern: the first
\* occurrence only (rep holds no "$").
ReplaceFirst(s, pat, rep) ==
    LET i == IndexOf(s, pat)
    IN  IF i = 0 THEN s
        ELSE SubSeq(s, 1, i - 1) \o rep \o SubSeq(s, i + Len(pat), Len(s))

\* String.prototype.replace(/[...]/g, ""): every character of the class removed.
RemoveAll(s, class) ==
    LET keep(c) == c \notin class
    IN  SelectSeq(s, keep)

\* String.prototype.slice(-n)
SliceLast(s, n) == IF Len(s) <= n THEN s ELSE SubSeq(s, Len(s) - n + 1, Len(s))

\* {...a, ...b}: b's own members win.
Spread(a, b) == [k \in DOMAIN a \cup DOMAIN b |-> IF k \in DOMAIN b THEN b[k] ELSE a[k]]

----------------------------------------------------------------------------
(* storage.js: interpolateFilename *)

\* interpolateFilename(filename, crawlId); now is new Date().toISOString() and
\* hostname is os.hostname().
interpolateFilename(filename, crawlId, hostname, now) ==
    LET f1 == ReplaceFirst(filename, <<"@", "t", "s">>,
                           RemoveAll(now, {":", "T", "Z", "z", ".", "-"}))
        f2 == ReplaceFirst(f1, <<"@", "h", "o", "s", "t", "n", "a", "m", "e">>, hostname)
        f3 == ReplaceFirst(f2, <<"@", "h", "o", "s", "t", "s", "u", "f", "f", "i", "x">>,
                           SliceLast(hostname, 14))
        f4 == ReplaceFirst(f3, <<"@", "i", "d">>, crawlId)
    IN  f4

----------------------------------------------------------------------------
(* argParser.js: validateArgs *)

\* \w of a JavaScript regular expression.
WordChars ==
    { "a", "b", "c", "d", "e", "f", "g", "h", "i", "j", "k", "l", "m",
      "n", "o", "p", "q", "r", "s", "t", "u", "v", "w", "x", "y", "z",
      "A", "B", "C", "D", "E", "F", "G", "H", "I", "J", "K", "L", "M",
      "N", "O", "P", "Q", "R", "S", "T", "U", "V", "W", "X", "Y", "Z",
      "0", "1", "2", "3", "4", "5", "6", "7", "8", "9", "_" }

\* The collection rule with its end anchor dropped: /^[\w][\w-]*/
SearchCollectionRxUnanchored(s) ==
    IF Len(s) >= 1 /\ s[1] \in WordChars THEN 0 ELSE -1

\* collection.search(/^[\w][\w-]*$/): 0 on a match, -1 otherwise.
SearchCollectionRx(s) ==
    IF /\ Len(s) >= 1
       /\ s[1] \in WordChars
       /\ \A i \in 2..Len(s) : s[i] \in WordChars \cup {"-"}
    THEN 0 ELSE -1

\* A step of validateArgs yields the option bag and "ok", or the bag as it was
\* when the step threw and the error.
Ok(a)       == [argv |-> a, res |-> "ok"]
Throw(a, e) == [argv |-> a, res |-> e]

\* lines 350-355: interpolate the collection name, then check it.
StepCollection(a, e) ==
    LET a1 == [a EXCEPT !.collection =
                  interpolateFilename(a.collection, a.crawlId, e.hostname, e.now)]
    IN  IF SearchCollectionRx(a1.collection) = -1
        THEN Throw(a1, "invalid collection name")
        ELSE Ok(a1)

\* line 357
StepTimeout(a) == Ok([a EXCEPT !.timeout = a.timeout * 1000])

\* constants.js WAIT_UNTIL_OPTS, as listed in the comment above its use.
WAIT_UNTIL_OPTS == { <<"load">>, <<"domcontentloaded">>, <<"networkidle0">>, <<"networkidle2">> }

\* lines 362-370
StepWaitUntil(a) ==
    LET w  == IF a.waitUntil.t # "array" THEN Arr(Split(a.waitUntil.v, ",")) ELSE a.waitUntil
        a1 == [a EXCEPT !.waitUntil = w]
    IN  IF \E i \in 1..Len(w.v) : w.v[i] \notin WAIT_UNTIL_OPTS
        THEN Throw(a1, "Invalid waitUntil option")
        ELSE Ok(a1)

\* screenshots.js screenshotTypes keys, as listed in the option's description.
screenshotTypes == { <<"view">>, <<"thumbnail">>, <<"fullPage">> }

\* lines 373-383
StepScreenshot(a) ==
    IF Truthy(a.screenshot)
    THEN LET known(x) == x \in screenshotTypes
         IN  Ok([a EXCEPT !.screenshot = Arr(SelectSeq(Split(a.screenshot.v, ","), known))])
    ELSE Ok(a)

\* line 386
StepLogging(a) == Ok([a EXCEPT !.logging = Arr(Split(a.logging.v, ","))])

\* obj[key] = val on an object kept as its members <<key, value>> in insertion
\* order: an existing member keeps its place.
ObjSet(members, key, val) ==
    IF \E i \in 1..Len(members) : members[i][1] = key
    THEN [i \in 1..Len(members) |-> IF members[i][1] = key THEN <<key, val>> ELSE members[i]]
    ELSE Append(members, <<key, val>>)

\* argv.behaviors.forEach((x) => behaviorOpts[x] = true)
RECURSIVE SetEach(_, _)
SetEach(members, names) ==
    IF names = <<>> THEN members
    ELSE SetEach(ObjSet(members, Head(names), Bool(TRUE)), Tail(names))

\* constants.js BEHAVIOR_LOG_FUNC: the name of the logging hook.
BEHAVIOR_LOG_FUNC == Str(<<"__bx_log">>)

\* lines 389-403
StepBehaviors(a) ==
    LET names == IF a.behaviors.t # "array" THEN Split(a.behaviors.v, ",") ELSE a.behaviors.v
        a1    == [a EXCEPT !.behaviors = Arr(names)]
        o1    == SetEach(<<>>, names)
        a2    == IF a1.behaviorTimeout # 0
                 THEN [a1 EXCEPT !.behaviorTimeout = a1.behaviorTimeout * 1000]
                 ELSE a1
        o2    == IF a1.behaviorTimeout # 0
                 THEN ObjSet(o1, <<"timeout">>, Num(a1.behaviorTimeout * 1000))
                 ELSE o1
        o3    == IF Includes(a2.logging.v, <<"behaviors">>)
                 THEN ObjSet(o2, <<"log">>, BEHAVIOR_LOG_FUNC)
                 ELSE IF Includes(a2.logging.v, <<"behaviors-debug">>)
                 THEN ObjSet(o2, <<"log">>, BEHAVIOR_LOG_FUNC)
                 ELSE o2
        a3    == IF /\ ~Includes(a2.logging.v, <<"behaviors">>)
                    /\ Includes(a2.logging.v, <<"behaviors-debug">>)
                 THEN [a2 EXCEPT !.behaviorsLogDebug = Bool(TRUE)]
                 ELSE a2
    IN  Ok([a3 EXCEPT !.behaviorOpts = Str(JSONStringify(o3))])

\* lines 409-415
StepContext(a) ==
    Ok([a EXCEPT !.newContext =
           IF a.workers > 1 THEN Str(<<"ReuseWindowConcurrency">>)
           ELSE Str(<<"Cluster.CONCURRENCY_PAGE">>)])

\* puppeteer.devices: the names it knows.
Devices == { <<"iPhone X">>, <<"Pixel 2">> }

\* lines 417-422
StepDevice(a) ==
    IF Truthy(a.mobileDevice)
    THEN IF a.mobileDevice.v \in Devices
         THEN Ok([a EXCEPT !.emulateDevice = Obj(a.mobileDevice.v)])
         ELSE Throw(a, "Unknown device")
    ELSE Ok(a)

\* for (const seed of urlSeedFileList) if (seed) argv.seeds.push(seed)
RECURSIVE PushLines(_, _)
PushLines(seeds, lines) ==
    IF lines = <<>> THEN seeds
    ELSE PushLines(IF Head(lines) # <<>> THEN Append(seeds, Str(Head(lines))) ELSE seeds,
                   Tail(lines))

\* lines 428-430: a scalar seed becomes a one-element list.
Promote(seeds) == IF seeds.t = "string" THEN <<seeds>> ELSE seeds.v

\* lines 424-437; e.seedFileText is what readFileSync returns for argv.seedFile.
StepSeedFile(a, e) ==
    IF Truthy(a.seedFile)
    THEN Ok([a EXCEPT !.seeds = Arr(PushLines(Promote(a.seeds), Split(e.seedFileText, "\n")))])
    ELSE Ok(a)

\* NetIdleWaitFor with page-spa forgotten.
NetIdleWaitForPageOnly(scopeType) ==
    IF scopeType = Str(<<"page">>) THEN 15 ELSE 2

\* lines 440-444
NetIdleWaitFor(scopeType) ==
    IF scopeType = Str(<<"page">>) \/ scopeType = Str(<<"page-spa">>) THEN 15 ELSE 2

\* lines 439-446
StepNetIdleWait(a) ==
    IF a.netIdleWait = -1
    THEN Ok([a EXCEPT !.netIdleWait = NetIdleWaitFor(a.scopeType)])
    ELSE Ok(a)

\* line 449: include is a string or a non-empty array
PrefersInclude(include) ==
    Truthy(include) /\ (include.t = "string" \/ Len(include.v) # 0)

\* lines 448-454
StepScope(a) ==
    IF PrefersInclude(a.include) /\ Truthy(a.scopeType) /\ a.scopeType # Str(<<"custom">>)
    THEN Ok([a EXCEPT !.scopeType = Str(<<"custom">>)])
    ELSE Ok(a)

\* new ScopedSeed(options): the seed is known here by the options it is built from.
ScopedSeed(options) == options

\* for (let seed of argv.seeds): the entries of an array, the characters of a string.
SeedItems(seeds) ==
    IF seeds.t = "string"
    THEN [i \in 1..Len(seeds.v) |-> Str(<<seeds.v[i]>>)]
    ELSE seeds.v

\* lines 456-472
StepSeeds(a) ==
    LET scopeOpts == [ scopeType |-> a.scopeType,
                       sitemap   |-> a.sitemap,
                       include   |-> a.include,
                       exclude   |-> a.exclude,
                       depth     |-> Num(a.depth),
                       extraHops |-> Num(a.extraHops) ]
        items     == SeedItems(a.seeds)
        seedObj(x) == IF x.t = "string" THEN [url |-> x] ELSE x.v
    IN  Ok([a EXCEPT !.scopedSeeds =
               Arr([i \in 1..Len(items) |-> ScopedSeed(Spread(scopeOpts, seedObj(items[i])))])])

\* path.resolve(cwd, name)
PathResolve(cwd, name) == IF StartsWith(name, <<"/">>) THEN name ELSE cwd \o <<"/">> \o name

\* lines 475-477
StepStats(a) ==
    IF Truthy(a.statsFilename)
    THEN Ok([a EXCEPT !.statsFilename = Str(PathResolve(a.cwd, a.statsFilename.v))])
    ELSE Ok(a)

\* validateArgs(argv): the statements in source order; a throw ends it.  sK is
\* the (one) outcome after the K-th group of statements.
validateArgs(a, e) ==
    LET s1  == {StepCollection(a, e)}
        s2  == {IF r.res = "ok" THEN StepTimeout(r.argv)     ELSE r : r \in s1}
        s3  == {IF r.res = "ok" THEN StepWaitUntil(r.argv)   ELSE r : r \in s2}
        s4  == {IF r.res = "ok" THEN StepScreenshot(r.argv)  ELSE r : r \in s3}
        s5  == {IF r.res = "ok" THEN StepLogging(r.argv)     ELSE r : r \in s4}
        s6  == {IF r.res = "ok" THEN StepBehaviors(r.argv)   ELSE r : r \in s5}
        s7  == {IF r.res = "ok" THEN StepContext(r.argv)     ELSE r : r \in s6}
        s8  == {IF r.res = "ok" THEN StepDevice(r.argv)      ELSE r : r \in s7}
        s9  == {IF r.res = "ok" THEN StepSeedFile(r.argv, e) ELSE r : r \in s8}
        s10 == {IF r.res = "ok" THEN StepNetIdleWait(r.argv) ELSE r : r \in s9}
        s11 == {IF r.res = "ok" THEN StepScope(r.argv)       ELSE r : r \in s10}
        s12 == {IF r.res = "ok" THEN StepSeeds(r.argv)       ELSE r : r \in s11}
        s13 == {IF r.res = "ok" THEN StepStats(r.argv)       ELSE r : r \in s12}
    IN  CHOOSE r \in s13 : TRUE

----------------------------------------------------------------------------
(* The resolver: validateArgs run once on one parsed option bag *)

\* The option bag with every option at its cliOpts default.
DefaultArgv ==
    [ collection        |-> <<"c", "r", "a", "w", "l", "-", "@", "t", "s">>,
      crawlId           |-> <<"i", "d", "1">>,
      timeout           |-> 90,
      waitUntil         |-> Str(<<"load">>),
      screenshot        |-> Str(<<>>),
      logging           |-> Str(<<"stats">>),
      behaviors         |-> Str(<<"autoplay", ",", "autofetch", ",", "autoscroll", ",", "siteSpecific">>),
      behaviorTimeout   |-> 90,
      behaviorsLogDebug |-> Undef,
      behaviorOpts      |-> Undef,
      workers           |-> 1,
      newContext        |-> Undef,
      mobileDevice      |-> Undef,
      emulateDevice     |-> Undef,
      seedFile          |-> Undef,
      seeds             |-> Arr(<<>>),
      netIdleWait       |-> -1,
      scopeType         |-> Undef,
      include           |-> Undef,
      exclude           |-> Undef,
      sitemap           |-> Undef,
      depth             |-> -1,
      extraHops         |-> 0,
      scopedSeeds       |-> Undef,
      statsFilename     |-> Undef,
      cwd               |-> <<"/", "crawls">> ]

DefaultEnv ==
    [ hostname     |-> <<"h", "1">>,
      now          |-> <<"2", "0", "2", "6", "-", "1", "1", "-", "0", "5", "T", "0", "9",
                         ":", "5", "2", ":", "0", "2", ".", "1", "2", "3", "Z">>,
      seedFileText |-> <<>> ]

Collections ==
    { <<"c", "1">>,
      <<"m", "y", " ", "c", "o", "l", "l">>,
      <<"c", "r", "a", "w", "l", "-", "@", "t", "s">>,
      <<"-", "x">>,
      <<>>,
      <<"@", "h", "o", "s", "t", "n", "a", "m", "e">>,
      <<"x", "@", "h", "o", "s", "t", "s", "u", "f", "f", "i", "x">>,
      <<"c", "_", "@", "i", "d">>,
      <<"@", "i", "d", "@", "i", "d">> }

ArgCrawlIds == { <<"i", "d", "1">>, <<"@", "t", "s">>, <<"a", " ", "b">> }

Hostnames ==
    { <<"h", "1">>,
      <<"a", ".", "c", "r", "a", "w", "l", "e", "r", "-", "p", "o", "d", "-", "0", "1">> }

WaitUntils ==
    { Str(<<"load">>), Str(<<"load", ",", "networkidle0">>),
      Arr(<< <<"domcontentloaded">>, <<"networkidle2">> >>), Str(<<"load", ",", "idle">>) }

MobileDevices == { Undef, Str(<<"iPhone X">>), Str(<<"Nokia 3310">>) }
Screenshots   == { Str(<<>>), Str(<<"view", ",", "bogus", ",", "fullPage">>) }

Loggings ==
    { Str(<<"stats">>), Str(<<"behaviors">>), Str(<<"behaviors-debug">>),
      Str(<<"stats", ",", "behaviors-debug">>),
      Str(<<"behaviors", ",", "behaviors-debug">>) }

BehaviorLists ==
    { Str(<<"autoplay", ",", "autofetch", ",", "autoscroll", ",", "siteSpecific">>),
      Str(<<"autoscroll">>),
      Arr(<< <<"autoplay">>, <<"autoscroll">> >>) }

BehaviorTimeouts == { 0, 90, -1 }

SeedValues ==
    { Arr(<<>>),
      Arr(<< Str(<<"u", "1">>) >>),
      Str(<<"u", "1">>),
      Arr(<< Str(<<"u", "1">>), Obj([url |-> Str(<<"u", "2">>), scopeType |-> Str(<<"host">>)]) >>),
      Arr(<< Obj([url |-> Str(<<"u", "3">>), include |-> Str(<<"rx2">>), depth |-> Num(1)]) >>),
      Arr(<< Obj([url |-> Str(<<"u", "4">>)]), Str(<<"u", "1">>) >>) }

SeedFileTexts ==
    { <<"u", "8", "\n", "\n", "u", "9", "\n">>,
      <<"\n", "u", "7">> }

NetIdleWaits == { -1, 0, 5 }

ScopeTypes ==
    { Undef, Str(<<"page">>), Str(<<"page-spa">>), Str(<<"prefix">>), Str(<<"host">>),
      Str(<<"domain">>), Str(<<"any">>), Str(<<"custom">>) }

Includes_ == { Undef, Str(<<>>), Str(<<"rx">>), Arr(<<>>), Arr(<< <<"rx">> >>) }

\* Option bags that vary the name, the waits, the device and the screenshots.
NameInputs ==
    { <<[DefaultArgv EXCEPT !.collection = c, !.crawlId = id, !.waitUntil = w,
                            !.mobileDevice = d, !.screenshot = sc],
        [DefaultEnv EXCEPT !.hostname = h]>> :
        c \in Collections, id \in ArgCrawlIds, w \in WaitUntils,
        d \in MobileDevices, sc \in Screenshots, h \in Hostnames }

\* Option bags that vary the behaviors, their timeout, the logging and the workers.
BehaviorInputs ==
    { <<[DefaultArgv EXCEPT !.logging = l, !.behaviors = b, !.behaviorTimeout = bt,
                            !.workers = w, !.statsFilename = sf],
        DefaultEnv>> :
        l \in Loggings, b \in BehaviorLists, bt \in BehaviorTimeouts, w \in {1, 4},
        sf \in {Undef, Str(<<"stats.json">>)} }

\* Option bags that vary the seeds, the seed file and the scope.
ScopeInputs ==
    { <<[DefaultArgv EXCEPT !.seeds = sd, !.seedFile = x[1], !.netIdleWait = n,
                            !.scopeType = st, !.include = inc],
        [DefaultEnv EXCEPT !.seedFileText = x[2]]>> :
        sd \in SeedValues,
        x \in {<<Undef, <<>> >>} \cup {<<Str(<<"seeds.txt">>), t>> : t \in SeedFileTexts},
        n \in NetIdleWaits, st \in ScopeTypes, inc \in Includes_ }

ArgInit ==
    /\ this = NewS3StorageSync("data",
                               [protocol |-> "https:", username |-> <<>>, password |-> <<>>,
                                host |-> <<"s3.host">>, pathname |-> <<"/", "bkt", "/">>],
                               Undef, Undef, Str(<<"crawl1">>))
    /\ pc = "idle"
    /\ call = NoCall
    /\ resource = NoResource
    /\ result = "none"
    /\ error = ""
    /\ log = <<>>
    /\ sent = <<>>
    /\ bucket = {}
    /\ redis = [x \in {} |-> <<>>]
    /\ \E in \in NameInputs \cup BehaviorInputs \cup ScopeInputs :
          /\ parsed = in[1]
          /\ env = in[2]
          /\ argv = in[1]
    /\ vres = "none"

\* yargs' check callback: validateArgs runs to its return or to its throw.
ValidateArgs ==
    /\ vres = "none"
    /\ \E r \in {validateArgs(argv, env)} :
          /\ argv' = r.argv
          /\ vres' = r.res
    /\ UNCHANGED <<parsed, env>>
    /\ UNCHANGED syncVars

ArgNext == ValidateArgs

ArgSpec == ArgInit /\ [][ArgNext]_vars

----------------------------------------------------------------------------
(* Properties of the resolver *)

NamedScopeTypes ==
    { Str(<<"page">>), Str(<<"page-spa">>), Str(<<"prefix">>), Str(<<"host">>),
      Str(<<"domain">>), Str(<<"any">>) }

NonEmptyPattern(x) == x.t \in {"string", "array"} /\ x.v # <<>>

\* The include override as it shows in the resolved option bag itself.
ArgvScopePrecedence ==
    vres = "ok" =>
        /\ (NonEmptyPattern(parsed.include) /\ parsed.scopeType \in NamedScopeTypes)
              => argv.scopeType = Str(<<"custom">>)
        /\ ~(NonEmptyPattern(argv.include) /\ argv.scopeType \in NamedScopeTypes)
        /\ ~NonEmptyPattern(parsed.include) => argv.scopeType = parsed.scopeType

\* C6: after resolution, and in the options every ScopedSeed is built from, a
\* non-empty include pattern never stands beside a named scopeType other than
\* custom; an absent or empty include leaves the requested scopeType as it was.
C6_IncludeNeverBesideNamedScope ==
    vres = "ok" =>
        /\ (NonEmptyPattern(parsed.include) /\ parsed.scopeType \in NamedScopeTypes)
              => argv.scopeType = Str(<<"custom">>)
        /\ ~NonEmptyPattern(parsed.include) => argv.scopeType = parsed.scopeType
        /\ \A i \in 1..Len(argv.scopedSeeds.v) :
              LET o == argv.scopedSeeds.v[i]
              IN  ~(NonEmptyPattern(o["include"]) /\ o["scopeType"] \in NamedScopeTypes)

\* C7: with netIdleWait left at -1, resolution sets it to 15 when the supplied
\* scopeType is page or page-spa and to 2 for every other supplied scopeType
\* (none included); any other supplied netIdleWait is left as it is.
C7_NetIdleWaitFromSuppliedScope ==
    vres = "ok" =>
        IF parsed.netIdleWait = -1
        THEN argv.netIdleWait =
                (IF parsed.scopeType.t = "string" /\ parsed.scopeType.v \in {<<"page">>, <<"page-spa">>}
                 THEN 15 ELSE 2)
        ELSE argv.netIdleWait = parsed.netIdleWait

C7_Witness ==
    /\ vres = "ok"
    /\ parsed.netIdleWait = -1
    /\ parsed.scopeType = Str(<<"page-spa">>)
    /\ argv.netIdleWait = 15

\* The non-empty lines of a text, in order.
RECURSIVE NonEmptyLines(_)
NonEmptyLines(text) ==
    IF text = <<>> THEN <<>>
    ELSE LET n    == IF \E i \in 1..Len(text) : text[i] = "\n"
                     THEN (CHOOSE i \in 1..Len(text) :
                              text[i] = "\n" /\ \A j \in 1..(i-1) : text[j] # "\n")
                     ELSE Len(text) + 1
             line == SubSeq(text, 1, n - 1)
             rest == SubSeq(text, n + 1, Len(text))
         IN  (IF line = <<>> THEN <<>> ELSE << Str(line) >>) \o NonEmptyLines(rest)

\* The seeds the flags gave (a scalar as a one-element list), then the seed
\* file's non-empty lines.
ExpectedSeeds ==
    (IF parsed.seeds.t = "string" THEN << parsed.seeds >> ELSE parsed.seeds.v)
      \o (IF parsed.seedFile.t = "string" /\ parsed.seedFile.v # <<>>
          THEN NonEmptyLines(env.seedFileText) ELSE <<>>)

\* The options a seed is expected to be built from: the shared scope options
\* with the seed's own fields laid over them.
ExpectedSeedOptions(seed) ==
    LET own    == IF seed.t = "string" THEN [url |-> seed] ELSE seed.v
        shared == [ scopeType |-> argv.scopeType, sitemap |-> argv.sitemap,
                    include |-> argv.include, exclude |-> argv.exclude,
                    depth |-> Num(argv.depth), extraHops |-> Num(argv.extraHops) ]
        keys   == {"scopeType", "sitemap", "include", "exclude", "depth", "extraHops"}
                     \cup DOMAIN own
    IN  [k \in keys |-> IF k \in DOMAIN own THEN own[k] ELSE shared[k]]

SeedsAsExpected ==
    /\ argv.seeds.t = "array"
    /\ argv.seeds.v = ExpectedSeeds
    /\ argv.scopedSeeds.t = "array"
    /\ Len(argv.scopedSeeds.v) = Len(ExpectedSeeds)
    /\ \A i \in 1..Len(ExpectedSeeds) :
          /\ DOMAIN argv.scopedSeeds.v[i] = DOMAIN ExpectedSeedOptions(ExpectedSeeds[i])
          /\ \A k \in DOMAIN argv.scopedSeeds.v[i] :
                argv.scopedSeeds.v[i][k] = ExpectedSeedOptions(ExpectedSeeds[i])[k]

SeedsAsExpectedUnlessBareScalar ==
    (vres = "ok" /\ (parsed.seeds.t = "array" \/ Truthy(parsed.seedFile))) => SeedsAsExpected

IsWordChar(c) == c \in WordChars

\* C9: the collection is interpolated exactly once, before the check; a
\* resolved configuration has a collection matching ^[A-Za-z0-9_][A-Za-z0-9_-]*$;
\* an input whose interpolated name does not match fails with the name error
\* with no later normalisation applied to the option bag.
C9_CollectionInterpolatedThenChecked ==
    LET name    == interpolateFilename(parsed.collection, parsed.crawlId, env.hostname, env.now)
        matches == /\ name # <<>>
                   /\ name[1] # "-"
                   /\ \A i \in 1..Len(name) : IsWordChar(name[i]) \/ name[i] = "-"
    IN  vres # "none" =>
            /\ argv.collection = name
            /\ vres = "ok" => matches
            /\ ~matches =>
                  /\ vres = "invalid collection name"
                  /\ argv = [parsed EXCEPT !.collection = name]
            /\ matches => vres # "invalid collection name" /\ argv.timeout = parsed.timeout * 1000

C9_Witness ==
    /\ vres = "invalid collection name"
    /\ parsed.collection = <<"m", "y", " ", "c", "o", "l", "l">>
    /\ argv.timeout = 90
    /\ argv.scopedSeeds = Undef

\* The JSON text holds the member key: value.
HasMember(json, key, value) ==
    \E i \in 1..(Len(json) - 4) : SubSeq(json, i, i + 4) = <<"\"", key, "\"", ":", value>>
HasKey(json, key) ==
    \E i \in 1..(Len(json) - 3) : SubSeq(json, i, i + 3) = <<"\"", key, "\"", ":">>

ListedBehaviors ==
    IF parsed.behaviors.t = "array"
    THEN {parsed.behaviors.v[i][1] : i \in 1..Len(parsed.behaviors.v)}
    ELSE {parsed.behaviors.v[i] : i \in {j \in 1..Len(parsed.behaviors.v) : parsed.behaviors.v[j] # ","}}

Channels == {parsed.logging.v[i] : i \in {j \in 1..Len(parsed.logging.v) : parsed.logging.v[j] # ","}}

\* C10: behaviorOpts maps every listed behavior to true; key timeout is there
\* exactly when a positive behaviorTimeout is given and then is that value
\* times 1000; key log is there exactly when the logging channels include
\* behaviors or behaviors-debug; behaviorsLogDebug is set whenever the channels
\* include behaviors-debug.
C10_BehaviorOptsComposed ==
    vres = "ok" =>
        LET json == argv.behaviorOpts.v
        IN  /\ \A b \in ListedBehaviors : HasMember(json, b, "true")
            /\ HasKey(json, "timeout") <=> parsed.behaviorTimeout > 0
            /\ parsed.behaviorTimeout > 0 =>
                  HasMember(json, "timeout", ToString(parsed.behaviorTimeout * 1000))
            /\ HasKey(json, "log") <=> (Channels \cap {"behaviors", "behaviors-debug"} # {})
            /\ "behaviors-debug" \in Channels => argv.behaviorsLogDebug = Bool(TRUE)

\* What the code composes: timeout for every non-zero behaviorTimeout, and the
\* debug flag only when behaviors is not also a channel.
BehaviorOptsAsCoded ==
    vres = "ok" =>
        LET json == argv.behaviorOpts.v
        IN  /\ \A b \in ListedBehaviors : HasMember(json, b, "true")
            /\ HasKey(json, "timeout") <=> parsed.behaviorTimeout # 0
            /\ parsed.behaviorTimeout # 0 =>
                  HasMember(json, "timeout", ToString(parsed.behaviorTimeout * 1000))
            /\ HasKey(json, "log") <=> (Channels \cap {"behaviors", "behaviors-debug"} # {})
            /\ ("behaviors-debug" \in Channels /\ "behaviors" \notin Channels)
                  <=> argv.behaviorsLogDebug = Bool(TRUE)

SinglePageScope(scopeType) ==
    scopeType.t = "string" /\ scopeType.v \in {<<"page">>, <<"page-spa">>}

\* C11: in every resolved configuration where netIdleWait was left at -1, the
\* resolved netIdleWait agrees with the final scopeType (the one left after the
\* include override to custom): it is 15 if and only if the final scopeType is
\* page or page-spa, and 2 otherwise.
C11_NetIdleWaitAgreesWithFinalScope ==
    (vres = "ok" /\ parsed.netIdleWait = -1) =>
        /\ argv.netIdleWait = 15 <=> SinglePageScope(argv.scopeType)
        /\ ~SinglePageScope(argv.scopeType) => argv.netIdleWait = 2

\* The same where the include override did not change the scopeType.
NetIdleWaitAgreesWhenScopeKept ==
    (vres = "ok" /\ parsed.netIdleWait = -1 /\ argv.scopeType = parsed.scopeType) =>
        /\ argv.netIdleWait = 15 <=> SinglePageScope(argv.scopeType)
        /\ ~SinglePageScope(argv.scopeType) => argv.netIdleWait = 2

====
